---- MODULE Spec2Model ----
(***************************************************************************)
(* Dual-pipeline document ingestion and retrieval backend.                 *)
(*                                                                         *)
(* Pipeline A: RecursiveCharacterTextSplitter + Qdrant collection          *)
(* "demo_collection"; Pipeline B: SemanticChunker + PGVector collection    *)
(* "default_collection".  The vector databases, the embedding services,    *)
(* the loaders and the language model are external: each call to them      *)
(* either returns or raises, chosen nondeterministically.                  *)
(***************************************************************************)
EXTENDS Integers, Sequences, FiniteSets, TLC

\* ------------------------------------------------------------------ bounds
MaxOps == 2          \* top-level calls (ingest_file, register, storage calls) per run
MaxBatches == 2      \* the largest file fills this many Pipeline A batches
MaxK == 2            \* the largest k a query passes

\* ------------------------------------------------------- program constants
batch_size == 16

None == "<None>"
PDF == "application/pdf"
DOCX == "application/vnd.openxmlformats-officedocument.wordprocessingml.document"
DocumentType == {PDF, DOCX}

\* ------------------------------------------------------------------ inputs
\* A file is identified by the number of chunks the splitters cut it into.
FileSizes ==
    {0, 2} \cup {b * batch_size : b \in 1..(MaxBatches - 1)}
        \cup {(b - 1) * batch_size + 1 : b \in 1..MaxBatches}
PipelineArgs == {"A", "B", "C"}
TypeArgs == DocumentType \cup {"text/plain"}
Queries == {1, 2}
KArgs == (0 - 1)..MaxK

VARIABLES
    demo_collection,   \* whether Qdrant holds the collection "demo_collection"
    vectorstore_a,     \* the Documents stored in Store A, in insertion order
    vectorstore_b,     \* the Documents stored in Store B, in insertion order
    ing,               \* the ingest_file call in flight, or idle
    last,              \* what the call that finished last returned or raised
                       \* (NoCall again once the next ingestion has started)
    nops,              \* top-level calls started so far (the clock of timestamps)
    uploaded_files,        \* utils.py: the tracking dictionary, file id -> record
    agent_uploaded_files,  \* agent.py: the tracking dictionary, file id -> record
    uploaded_files_file,   \* uploaded_files.json on disk
    messages_file,         \* chat_messages.json on disk
    chats,             \* the process_chat_message calls in flight, per request
    uploads            \* the upload_document calls, per request

ingestVars == <<demo_collection, vectorstore_a, vectorstore_b, ing>>
stateVars ==
    <<uploaded_files, agent_uploaded_files, uploaded_files_file, messages_file>>
taskVars == <<chats, uploads>>
vars == <<ingestVars, last, nops, stateVars, taskVars>>

\* ---------------------------------------------------------------- helpers
Min(a, b) == IF a < b THEN a ELSE b

\* Document(page_content, metadata) as the loaders and splitters produce it.
Doc(f, i) == [page_content |-> <<f, i>>, metadata |-> [source |-> f]]

\* text_splitter.split_documents(pages): the ordered chunk list of file f.
split_documents(f) == [i \in 1..f |-> Doc(f, i)]

Batch_short(texts, i) == SubSeq(texts, i + 1, Min(i + batch_size - 1, Len(texts)))

\* texts[i : i + batch_size] (0-based start i, Python slice semantics).
Batch(texts, i) == SubSeq(texts, i + 1, Min(i + batch_size, Len(texts)))

\* The iterations of  range(0, n, batch_size):  ceil(n / batch_size).
BatchCount(n) == (n + batch_size - 1) \div batch_size

Idle ==
    [pc |-> "idle", pipeline |-> None, type |-> None, file |-> 0,
     i |-> 0, base |-> 0, upserts |-> 0]

\* ------------------------------------------------ results of finished calls
NoCall == [op |-> "none"]

\* What ingest_file returned (err = None, result = the description) or raised.
\* loads / upserts count the loader and add_documents calls the call made;
\* base is the size of the target store when the call started, batch the
\* index of the batch the call had reached, llm what became of its
\* description request (None when none was made).
IngestResult(g, err, result, loads, llm) ==
    [op |-> "ingest_file", pipeline |-> g.pipeline, type |-> g.type,
     file |-> g.file, base |-> g.base, batch |-> g.i \div batch_size,
     err |-> err, detail |-> <<>>, result |-> result,
     loads |-> loads, upserts |-> g.upserts, llm |-> llm]

\* ------------------------------------------------------ collection bootstrap
\* client_a.create_collection: raises when the collection exists already or
\* when Qdrant cannot be reached; otherwise the (empty) collection is created.
create_collection_raises(exists, reachable) == exists \/ ~reachable

BootstrapError_reraise(raised) == IF raised THEN "Exception" ELSE None

\* try: create_collection(...)  except Exception: pass
BootstrapError(raised) == None

\* Module load of services/ingest.py (a process start): no call is in flight.
Bootstrap ==
    /\ ing.pc = "idle"
    /\ \E reachable \in BOOLEAN :
         LET raised == create_collection_raises(demo_collection, reachable)
         IN  /\ demo_collection' = (demo_collection \/ ~raised)
             /\ last' = [op |-> "bootstrap", existed |-> demo_collection,
                         raised |-> raised, err |-> BootstrapError(raised)]
    /\ UNCHANGED <<vectorstore_a, vectorstore_b, ing, nops>>
    /\ UNCHANGED stateVars
    /\ UNCHANGED taskVars

\* ---------------------------------------------------------------- ingestion
PipelineBranch_default_a(pipeline) == IF pipeline = "B" THEN "B" ELSE "A"

\* The branch ingest_file takes on its pipeline argument.
PipelineBranch(pipeline) ==
    IF pipeline = "A" THEN "A" ELSE IF pipeline = "B" THEN "B" ELSE "invalid"

TypeSupported_else_docx(document_type) == TRUE

\* The if/elif/else on document_type in _ingest_with_pipeline_a / _b.
TypeSupported(document_type) == document_type = PDF \/ document_type = DOCX

\* ingest_file(file_path, document_type, pipeline) up to its first await:
\* the pipeline dispatch, the construction of the vector store object and the
\* document_type dispatch run without suspension.
ingest_file ==
    /\ ing.pc = "idle"
    /\ nops < MaxOps
    /\ nops' = nops + 1
    /\ \E file \in FileSizes, document_type \in TypeArgs, pipeline \in PipelineArgs :
         LET g == [Idle EXCEPT !.pipeline = pipeline, !.type = document_type,
                               !.file = file,
                               !.base = IF pipeline = "B" THEN Len(vectorstore_b)
                                        ELSE Len(vectorstore_a)]
         IN  IF PipelineBranch(pipeline) = "invalid"
             THEN /\ last' = IngestResult(g, "InvalidArgument", None, 0, None)
                  /\ ing' = Idle
             ELSE IF ~TypeSupported(document_type)
             THEN /\ last' = IngestResult(g, "UnsupportedDocumentType", None, 0, None)
                  /\ ing' = Idle
             ELSE /\ ing' = [g EXCEPT !.pc = "load"]
                  /\ last' = NoCall
    /\ UNCHANGED <<demo_collection, vectorstore_a, vectorstore_b>>
    /\ UNCHANGED stateVars
    /\ UNCHANGED taskVars

\* load_pdf_pages / load_docx_pages followed by split_documents.  The loader
\* raises on a missing or malformed file; the semantic chunker of Pipeline B
\* raises when its embedding service cannot be reached.
load_pages ==
    /\ ing.pc = "load"
    /\ \E ok \in BOOLEAN :
         IF ok
         THEN /\ ing' = [ing EXCEPT !.pc = IF ing.pipeline = "A" /\ ing.file = 0
                                           THEN "describe" ELSE "upsert"]
              /\ last' = last
         ELSE /\ ing' = Idle
              /\ last' = IngestResult(ing, "LoadError", None, 1, None)
    /\ UNCHANGED <<demo_collection, vectorstore_a, vectorstore_b, nops>>
    /\ UNCHANGED stateVars
    /\ UNCHANGED taskVars

\* One iteration of   for i in range(0, len(texts), batch_size):
\*                        vectorstore_a.add_documents(documents=texts[i:i+batch_size])
\* add_documents raises when the embedding service or Qdrant fails, and
\* always when the collection does not exist; a raising call stores nothing.
upsert_batch_a ==
    /\ ing.pc = "upsert"
    /\ ing.pipeline = "A"
    /\ LET texts == split_documents(ing.file)
           batch == Batch(texts, ing.i)
           g == [ing EXCEPT !.upserts = ing.upserts + 1]
       IN  \E ok \in BOOLEAN :
             IF ok /\ demo_collection
             THEN /\ vectorstore_a' = vectorstore_a \o batch
                  /\ ing' = [g EXCEPT !.i = ing.i + batch_size,
                                      !.pc = IF ing.i + batch_size < Len(texts)
                                             THEN "upsert" ELSE "describe"]
                  /\ last' = last
             ELSE /\ vectorstore_a' = vectorstore_a
                  /\ ing' = Idle
                  /\ last' = IngestResult(g, "StoreUnavailable", None, 1, None)
    /\ UNCHANGED <<demo_collection, vectorstore_b, nops>>
    /\ UNCHANGED stateVars
    /\ UNCHANGED taskVars

\* The text the language model returns for the content of file f.
Description(f) == "description"

generate_file_description_raising(f, outcome) ==
    IF outcome = "ok" THEN Description(f) ELSE "raise"

\* generate_file_description: the completion's text; None when the
\* completion has no choices or when anything raises.
generate_file_description(f, outcome) ==
    IF outcome = "ok" THEN Description(f) ELSE None

LLMOutcomes == {"ok", "no_choices", "raises"}

\* description = await generate_file_description(...); return description
describe_a ==
    /\ ing.pc = "describe"
    /\ \E outcome \in LLMOutcomes :
         LET d == generate_file_description(ing.file, outcome)
         IN  last' = IF d = "raise"
                     THEN IngestResult(ing, "DescriptionError", None, 1, outcome)
                     ELSE IngestResult(ing, None, d, 1, outcome)
    /\ ing' = Idle
    /\ UNCHANGED <<demo_collection, vectorstore_a, vectorstore_b, nops>>
    /\ UNCHANGED stateVars
    /\ UNCHANGED taskVars

upsert_b_into_store_a ==
    /\ ing.pc = "upsert"
    /\ ing.pipeline = "B"
    /\ vectorstore_a' = vectorstore_a \o split_documents(ing.file)
    /\ last' = IngestResult([ing EXCEPT !.upserts = ing.upserts + 1], None, "", 1, None)
    /\ ing' = Idle
    /\ UNCHANGED <<demo_collection, vectorstore_b, nops>>
    /\ UNCHANGED stateVars
    /\ UNCHANGED taskVars

\* vectorstore_b.add_documents(documents=texts): every chunk in one call;
\* ingest_file then returns "".
upsert_b ==
    /\ ing.pc = "upsert"
    /\ ing.pipeline = "B"
    /\ LET texts == split_documents(ing.file)
           g == [ing EXCEPT !.upserts = ing.upserts + 1]
       IN  \E ok \in BOOLEAN :
             IF ok
             THEN /\ vectorstore_b' = vectorstore_b \o texts
                  /\ last' = IngestResult(g, None, "", 1, None)
             ELSE /\ vectorstore_b' = vectorstore_b
                  /\ last' = IngestResult(g, "StoreUnavailable", None, 1, None)
    /\ ing' = Idle
    /\ UNCHANGED <<demo_collection, vectorstore_a, nops>>
    /\ UNCHANGED stateVars
    /\ UNCHANGED taskVars

\* ---------------------------------------------------------------- retrieval
\* The similarity of a stored Document to a query, as the embedding service
\* and the vector database compute it (a fixed function of the two texts).
MaxScore == 4
\* A query whose text is a phrase of chunk i of file f, word for word.
PhraseOf(f, i) == 100 * (f + 1) + i
\* The phrases put to the knowledge base for a file: one of its first chunk
\* and one of its last.
PhrasesOf(f) == IF f = 0 THEN {} ELSE {PhraseOf(f, 1), PhraseOf(f, f)}

\* The chunk a phrase was taken from is as similar to it as a chunk can be;
\* any other chunk may be less similar or (when it holds the same words)
\* just as similar.
Score(query, d) ==
    IF query = PhraseOf(d.page_content[1], d.page_content[2])
    THEN MaxScore
    ELSE (d.page_content[2] * query + d.metadata.source) % (MaxScore + 1)

RECURSIVE Ranking(_, _, _)
\* The Documents of a store by non-increasing score, from score level s down.
Ranking(store, query, s) ==
    IF s < 0 THEN <<>>
    ELSE SelectSeq(store, LAMBDA d : Score(query, d) = s)
             \o Ranking(store, query, s - 1)

\* vectorstore.similarity_search(query, k=k) when the database answers:
\* the k best Documents of the collection (LIMIT k; nothing for k = 0).
\* ranked is the collection in the order of its similarity to the query.
similarity_search(ranked, k) == SubSeq(ranked, 1, Min(k, Len(ranked)))

\* _retrieve_from_pipeline_a / _retrieve_from_pipeline_b pass k on unchecked.
_retrieve_from_pipeline_a(ranked_a, k) == similarity_search(ranked_a, k)
_retrieve_from_pipeline_b(ranked_b, k) == similarity_search(ranked_b, k)

\* document_ingestion_service_a / _b .retrieve_chunks(query, k): the
\* adapter's similarity search.
retrieve_chunks(ranked, k) == similarity_search(ranked, k)

\* Handlers run on one event loop: another call starts only while the
\* ingestion in flight is suspended at an await (the PDF loader, the
\* description request); the DOCX loader, the splitters and add_documents
\* are synchronous calls.
EventLoopFree ==
    \/ ing.pc = "idle"
    \/ ing.pc = "describe"
    \/ (ing.pc = "load" /\ ing.type = PDF)

\* Whether the similarity search on Store A raises: when the database or
\* the embedding service fails, and always without the collection.
RaisesA(fail_a) == fail_a \/ ~demo_collection

JoinResults_b_first(results_a, results_b) == results_b \o results_a
JoinResults_a_only(results_a, results_b) == results_a

\* return results_a + results_b
JoinResults(results_a, results_b) == results_a \o results_b

SearchResult(op, query, k, err, result, searches, ra, rb, failed) ==
    [op |-> op, query |-> query, k |-> k, err |-> err, result |-> result,
     searches |-> searches, returned_a |-> ra, returned_b |-> rb,
     failed |-> failed]

\* ingest.py: results_a = await _retrieve_from_pipeline_a(query, k)
\*            results_b = await _retrieve_from_pipeline_b(query, k)
\*            return results_a + results_b
\* An exception of either retrieval propagates to the caller.
SearchKnowledgeBase(QuerySet) ==
    /\ EventLoopFree
    /\ \E query \in QuerySet :
       LET ranked_a == Ranking(vectorstore_a, query, MaxScore)
           ranked_b == Ranking(vectorstore_b, query, MaxScore)
       IN
       \E k \in KArgs, fail_a \in BOOLEAN, fail_b \in BOOLEAN :
         LET results_a == _retrieve_from_pipeline_a(ranked_a, k)
             results_b == _retrieve_from_pipeline_b(ranked_b, k)
             op == "search_knowledge_base"
         IN  last' =
               IF RaisesA(fail_a)
               THEN SearchResult(op, query, k, "StoreUnavailable", <<>>, 1,
                                 <<>>, <<>>, {"A"})
               ELSE IF fail_b
               THEN SearchResult(op, query, k, "StoreUnavailable", <<>>, 2,
                                 results_a, <<>>, {"B"})
               ELSE SearchResult(op, query, k, None,
                                 JoinResults(results_a, results_b), 2,
                                 results_a, results_b, {})
    /\ UNCHANGED <<demo_collection, vectorstore_a, vectorstore_b, ing, nops>>
    /\ UNCHANGED stateVars
    /\ UNCHANGED taskVars

search_knowledge_base == SearchKnowledgeBase(Queries)

\* {"content": doc.page_content, "metadata": doc.metadata}
Entry(doc) == [content |-> doc.page_content, metadata |-> doc.metadata]
Entries(results) == [i \in 1..Len(results) |-> Entry(results[i])]

\* [{"error": f"Error retrieving documents: {str(e)}"}]
ErrorEntry == [error |-> "Error retrieving documents"]

\* retrieve_documents_a / retrieve_documents_b: the entries of the chunks
\* retrieved, or one error entry when the retrieval raised.
retrieve_documents(raised, results) ==
    IF raised THEN <<ErrorEntry>> ELSE Entries(results)

\* agent.py: results_a = await retrieve_documents_a(query, k)
\*           results_b = await retrieve_documents_b(query, k)
\*           return results_a + results_b
QueryDocuments(QuerySet) ==
    /\ EventLoopFree
    /\ \E query \in QuerySet :
       LET ranked_a == Ranking(vectorstore_a, query, MaxScore)
           ranked_b == Ranking(vectorstore_b, query, MaxScore)
       IN
       \E k \in KArgs, fail_a \in BOOLEAN, fail_b \in BOOLEAN :
         LET chunks_a == retrieve_chunks(ranked_a, k)
             chunks_b == retrieve_chunks(ranked_b, k)
             results_a == retrieve_documents(RaisesA(fail_a), chunks_a)
             results_b == retrieve_documents(fail_b, chunks_b)
         IN  last' =
               SearchResult("query_documents", query, k, None,
                            JoinResults(results_a, results_b), 2,
                            IF RaisesA(fail_a) THEN <<>> ELSE chunks_a,
                            IF fail_b THEN <<>> ELSE chunks_b,
                            (IF RaisesA(fail_a) THEN {"A"} ELSE {})
                                \cup (IF fail_b THEN {"B"} ELSE {}))
    /\ UNCHANGED <<demo_collection, vectorstore_a, vectorstore_b, ing, nops>>
    /\ UNCHANGED stateVars
    /\ UNCHANGED taskVars

query_documents == QueryDocuments(Queries)

\* A query made right after an ingestion returned, with a phrase taken from
\* the file just ingested.
JustIngested == last.op = "ingest_file" /\ last.err = None
phrase_search_knowledge_base ==
    JustIngested /\ SearchKnowledgeBase(PhrasesOf(last.file))
phrase_query_documents ==
    JustIngested /\ QueryDocuments(PhrasesOf(last.file))

\* ------------------------------------------------- persisted JSON documents
\* A file on disk: absent, unparseable, or holding a JSON document.
Missing == [state |-> "missing", data |-> <<>>]
Corrupt == [state |-> "corrupt", data |-> <<>>]
JsonFile(data) == [state |-> "json", data |-> data]

EmptyDict == <<>>

DictSet_alone(d, key, value) == [x \in {key} |-> value]

\* The dictionary d with d[key] = value (inserted or overwritten).
DictSet(d, key, value) ==
    [x \in DOMAIN d \cup {key} |-> IF x = key THEN value ELSE d[x]]
DictDel(d, key) == [x \in DOMAIN d \ {key} |-> d[x]]

\* {"conversations": {}}
default_data == [conversations |-> EmptyDict]

\* The conversation identifier every call uses (conversation_id: int = 1).
conversation_id == "1"

_load_messages_no_reset(file) ==
    IF file.state = "json"
    THEN [data |-> file.data, file |-> file, errpath |-> FALSE]
    ELSE [data |-> default_data, file |-> file, errpath |-> TRUE]

\* JSONStorage._load_messages: the parsed document; on JSONDecodeError or
\* FileNotFoundError the file is rewritten with default_data, which is
\* returned.  Yields the data, the file afterwards, and whether the except
\* branch ran.
_load_messages(file) ==
    IF file.state = "json"
    THEN [data |-> file.data, file |-> file, errpath |-> FALSE]
    ELSE [data |-> default_data, file |-> JsonFile(default_data), errpath |-> TRUE]

\* utils._load_uploaded_files: the parsed document; on JSONDecodeError or
\* FileNotFoundError an empty dict, the file being left as it is.
_load_uploaded_files(file) ==
    IF file.state = "json"
    THEN [data |-> file.data, file |-> file, errpath |-> FALSE]
    ELSE [data |-> EmptyDict, file |-> file, errpath |-> TRUE]

\* What a storage call returned: before is the state of the file when the
\* call started, errpath whether the loader's except branch ran.
StorageResult(op, before, errpath, result) ==
    [op |-> op, before |-> before, errpath |-> errpath, err |-> None,
     result |-> result]

\* The module-level  uploaded_files = _load_uploaded_files()  of utils.py
\* (a process start).
load_uploaded_files ==
    /\ LET r == _load_uploaded_files(uploaded_files_file)
       IN  /\ uploaded_files' = r.data
           /\ uploaded_files_file' = r.file
           /\ last' = StorageResult("_load_uploaded_files",
                                    uploaded_files_file.state, r.errpath, r.data)
    /\ UNCHANGED <<agent_uploaded_files, messages_file, nops>>
    /\ UNCHANGED ingestVars
    /\ UNCHANGED taskVars

\* JSONStorage.__init__: the file is created when it does not exist.
JSONStorage_init ==
    /\ messages_file' = IF messages_file.state = "missing"
                        THEN JsonFile(default_data) ELSE messages_file
    /\ last' = StorageResult("JSONStorage", messages_file.state, FALSE, <<>>)
    /\ UNCHANGED <<uploaded_files, agent_uploaded_files, uploaded_files_file, nops>>
    /\ UNCHANGED ingestVars
    /\ UNCHANGED taskVars

\* The message lists a caller stores (result.new_messages_json()).
MessageLists == {<<"m1">>, <<"m2", "m3">>}

\* JSONStorage.add_messages: load, replace the conversation's entry, save.
add_messages ==
    /\ nops < MaxOps
    /\ nops' = nops + 1
    /\ \E messages \in MessageLists :
         LET r == _load_messages(messages_file)
             conv == [messages |-> messages, updated_at |-> nops']
             data == [conversations |->
                         DictSet(r.data.conversations, conversation_id, conv)]
         IN  /\ messages_file' = JsonFile(data)
             /\ last' = StorageResult("add_messages", messages_file.state,
                                      r.errpath, messages)
    /\ UNCHANGED <<uploaded_files, agent_uploaded_files, uploaded_files_file>>
    /\ UNCHANGED ingestVars
    /\ UNCHANGED taskVars

\* JSONStorage.get_messages: the conversation's messages, [] without one.
get_messages ==
    /\ LET r == _load_messages(messages_file)
           convs == r.data.conversations
       IN  /\ messages_file' = r.file
           /\ last' = StorageResult("get_messages", messages_file.state, r.errpath,
                                    IF conversation_id \in DOMAIN convs
                                    THEN convs[conversation_id].messages
                                    ELSE <<>>)
    /\ UNCHANGED <<uploaded_files, agent_uploaded_files, uploaded_files_file, nops>>
    /\ UNCHANGED ingestVars
    /\ UNCHANGED taskVars

\* JSONStorage.clear_chat_messages: load; delete the conversation and save
\* when it is there.
clear_chat_messages ==
    /\ LET r == _load_messages(messages_file)
           convs == r.data.conversations
       IN  /\ messages_file' =
                 IF conversation_id \in DOMAIN convs
                 THEN JsonFile([conversations |-> DictDel(convs, conversation_id)])
                 ELSE r.file
           /\ last' = StorageResult("clear_chat_messages", messages_file.state,
                                    r.errpath, <<>>)
    /\ UNCHANGED <<uploaded_files, agent_uploaded_files, uploaded_files_file, nops>>
    /\ UNCHANGED ingestVars
    /\ UNCHANGED taskVars

\* The environment: a JSON document is deleted, or left unparseable (a
\* write cut short, an edit by hand).
damage_file ==
    /\ \E bad \in {Missing, Corrupt} :
         \/ messages_file' = bad /\ UNCHANGED uploaded_files_file
         \/ uploaded_files_file' = bad /\ UNCHANGED messages_file
    /\ last' = [op |-> "damage"]
    /\ UNCHANGED <<uploaded_files, agent_uploaded_files, nops>>
    /\ UNCHANGED ingestVars
    /\ UNCHANGED taskVars

\* --------------------------------------------------------------- chat turns
\* The chat requests the server may be handling at once.
ChatTasks == {"c1", "c2"}
ChatIdle == [pc |-> "idle", message |-> None, messages |-> <<>>]

\* The user messages of the requests.
UserMessages == {"hello", "thanks"}

\* result.new_messages_json(): the messages of this run only, the request
\* and the model's response, without the message_history passed in.
new_messages(message) ==
    <<[kind |-> "request", content |-> message],
      [kind |-> "response", content |-> message]>>

\* What get_messages yields for the file (JSONStorage.get_messages).
StoredMessages(file) ==
    LET convs == _load_messages(file).data.conversations
    IN  IF conversation_id \in DOMAIN convs
        THEN convs[conversation_id].messages
        ELSE <<>>

ChatResult(c, err, new) ==
    [op |-> "process_chat_message", err |-> err, message |-> c.message,
     history |-> c.messages, new |-> new]

\* process_chat_message up to its first suspension:
\*   messages = await storage.get_messages()
\*   result = await agent.run(message, message_history=messages)   <- waits
process_chat_message ==
    /\ nops < MaxOps
    /\ nops' = nops + 1
    /\ \E t \in ChatTasks, message \in UserMessages :
         /\ chats[t].pc = "idle"
         /\ messages_file' = _load_messages(messages_file).file
         /\ chats' = [chats EXCEPT ![t] =
                         [pc |-> "run", message |-> message,
                          messages |-> StoredMessages(messages_file)]]
    /\ UNCHANGED <<last, uploads>>
    /\ UNCHANGED <<uploaded_files, agent_uploaded_files, uploaded_files_file>>
    /\ UNCHANGED ingestVars

\* agent.run returns or raises; when it returns,
\*   await storage.add_messages(result.new_messages_json())
\* loads the file, replaces the conversation's entry and saves, and the
\* response is returned.
agent_run ==
    /\ \E t \in ChatTasks, ok \in BOOLEAN :
         /\ chats[t].pc = "run"
         /\ chats' = [chats EXCEPT ![t] = ChatIdle]
         /\ IF ok
            THEN LET new == new_messages(chats[t].message)
                     r == _load_messages(messages_file)
                     conv == [messages |-> new, updated_at |-> nops]
                     data == [conversations |->
                                 DictSet(r.data.conversations, conversation_id, conv)]
                 IN  /\ messages_file' = JsonFile(data)
                     /\ last' = ChatResult(chats[t], None, new)
            ELSE /\ messages_file' = messages_file
                 /\ last' = ChatResult(chats[t], "AgentError", <<>>)
    /\ UNCHANGED <<nops, uploads>>
    /\ UNCHANGED <<uploaded_files, agent_uploaded_files, uploaded_files_file>>
    /\ UNCHANGED ingestVars

\* ------------------------------------------------------------ file registry
FileIds == {"F1", "F2"}

\* The argument tuples register is called with.
RegisterArgs ==
    {[filename |-> "a.pdf", content_type |-> PDF, size |-> 3,
      file_path |-> "uploads/a.pdf", description |-> None],
     [filename |-> "b.docx", content_type |-> DOCX, size |-> 5,
      file_path |-> "uploads/b.docx", description |-> "manual"],
     [filename |-> "a.pdf", content_type |-> DOCX, size |-> 5,
      file_path |-> "tmp/a.pdf", description |-> "manual"]}

file_data_without_description(a, description, now) ==
    [filename |-> a.filename, content_type |-> a.content_type, size |-> a.size,
     description |-> None, upload_timestamp |-> now, file_path |-> a.file_path]

\* The record built from the arguments (upload_timestamp = now).
file_data(a, description, now) ==
    [filename |-> a.filename, content_type |-> a.content_type, size |-> a.size,
     description |-> description, upload_timestamp |-> now,
     file_path |-> a.file_path]

RegisterResult(module, file_id, a, content) ==
    [op |-> "register_uploaded_file", module |-> module, file_id |-> file_id,
     args |-> a, content |-> content, err |-> None]

\* agent.register_uploaded_file: uploaded_files[file_id] = {...}
agent_register_uploaded_file ==
    /\ nops < MaxOps
    /\ nops' = nops + 1
    /\ \E file_id \in FileIds, a \in RegisterArgs :
         /\ agent_uploaded_files' =
                DictSet(agent_uploaded_files, file_id,
                        [filename |-> a.filename, content_type |-> a.content_type,
                         size |-> a.size, description |-> a.description,
                         upload_timestamp |-> nops', file_path |-> a.file_path])
         /\ last' = RegisterResult("agent", file_id, a, None)
    /\ UNCHANGED <<uploaded_files, uploaded_files_file, messages_file>>
    /\ UNCHANGED ingestVars
    /\ UNCHANGED taskVars

\* utils.register_uploaded_file: a description is generated from content
\* when none is given; the record is inserted and the whole dictionary is
\* saved to uploaded_files.json.
register_uploaded_file ==
    /\ nops < MaxOps
    /\ nops' = nops + 1
    /\ \E file_id \in FileIds, a \in RegisterArgs, content \in {None, "content"},
          outcome \in LLMOutcomes :
         LET generated == a.description = None /\ content # None
             description == IF generated
                            THEN generate_file_description(0, outcome)
                            ELSE a.description
         IN  /\ (~generated => outcome = "ok")
             /\ uploaded_files' =
                    DictSet(uploaded_files, file_id, file_data(a, description, nops'))
             /\ uploaded_files_file' = JsonFile(uploaded_files')
             /\ last' = RegisterResult("utils", file_id, a, content)
    /\ UNCHANGED <<agent_uploaded_files, messages_file>>
    /\ UNCHANGED ingestVars
    /\ UNCHANGED taskVars

\* get_uploaded_files() / get_file_metadata(file_id) of either module, on
\* its tracking dictionary d.
get_uploaded_files(d) == d
get_file_metadata(d, file_id) == IF file_id \in DOMAIN d THEN d[file_id] ELSE None

\* ------------------------------------------------------------ upload handler
\* The upload requests the server may be handling at once, each for a file
\* of its own; str(uuid.uuid4()) gives each request an id of its own.
Uploads == {"u1", "u2"}
UploadName(u) == IF u = "u1" THEN "a.pdf" ELSE "b.docx"
UploadFileId(u) == IF u = "u1" THEN "F1" ELSE "F2"

\* The numbers of chunks of the files uploaded.
UploadFiles == {0, batch_size + 1}

UploadIdle ==
    [pc |-> "new", filename |-> None, type |-> None, file |-> 0, status |-> 0]

\* return UploadResponse(...)  /  raise HTTPException(status_code=500, ...)
Respond(g, status) == [g EXCEPT !.pc = "done", !.status = status]

\* The record register_uploaded_file stores for upload g at time now (the
\* handler passes no description).
UploadRecord(g, now) ==
    file_data([filename |-> g.filename, content_type |-> g.type,
               size |-> g.file, file_path |-> <<"uploads", g.filename>>],
              None, now)

Registered_regardless(d, u, g, ingested, now) ==
    DictSet(d, UploadFileId(u), UploadRecord(g, now))

\* The registry after the handler's try block: register_uploaded_file is
\* reached only when  await ...ingest_file(...)  returned; an exception
\* skips it.
Registered(d, u, g, ingested, now) ==
    IF ingested THEN DictSet(d, UploadFileId(u), UploadRecord(g, now)) ELSE d

\* upload_document up to its first suspension (the file is being written).
upload_document ==
    /\ \E u \in Uploads, type \in DocumentType, file \in UploadFiles :
         /\ uploads[u].pc = "new"
         /\ uploads' = [uploads EXCEPT ![u] =
                           [pc |-> "write", filename |-> UploadName(u),
                            type |-> type, file |-> file, status |-> 0]]
    /\ UNCHANGED <<last, nops, chats>>
    /\ UNCHANGED stateVars
    /\ UNCHANGED ingestVars

\* Service A's ingest_file from the loader's result to the description
\* request: the pages are split and the batches are upserted one by one
\* without suspension; sent batches are stored before one fails.
LoadAndUpsert(u) ==
    LET g == uploads[u]
        texts == split_documents(g.file)
        n == BatchCount(Len(texts))
    IN  \E loaded \in BOOLEAN, sent \in 0..n :
          /\ (~loaded => sent = 0)
          /\ (sent > 0 => demo_collection)
          /\ vectorstore_a' =
                 vectorstore_a \o SubSeq(texts, 1, Min(sent * batch_size, Len(texts)))
          /\ uploads' = [uploads EXCEPT ![u] =
                            IF loaded /\ sent = n
                            THEN [g EXCEPT !.pc = "describe"]
                            ELSE Respond(g, 500)]
          /\ agent_uploaded_files' =
                 IF loaded /\ sent = n
                 THEN agent_uploaded_files
                 ELSE Registered(agent_uploaded_files, u, g, FALSE, nops)

\* The file has been written (or writing it raised); ingest_file is called.
\* The DOCX loader does not suspend, the PDF loader does.
upload_write ==
    /\ \E u \in Uploads, written \in BOOLEAN :
         /\ uploads[u].pc = "write"
         /\ IF ~written
            THEN /\ uploads' = [uploads EXCEPT ![u] = Respond(uploads[u], 500)]
                 /\ agent_uploaded_files' =
                        Registered(agent_uploaded_files, u, uploads[u], FALSE, nops)
                 /\ UNCHANGED vectorstore_a
            ELSE IF uploads[u].type = DOCX
            THEN LoadAndUpsert(u)
            ELSE /\ uploads' = [uploads EXCEPT ![u].pc = "load"]
                 /\ UNCHANGED <<agent_uploaded_files, vectorstore_a>>
    /\ UNCHANGED <<demo_collection, vectorstore_b, ing, last, nops, chats>>
    /\ UNCHANGED <<uploaded_files, uploaded_files_file, messages_file>>

\* The PDF loader has returned or raised.
upload_load ==
    /\ \E u \in Uploads :
         /\ uploads[u].pc = "load"
         /\ LoadAndUpsert(u)
    /\ UNCHANGED <<demo_collection, vectorstore_b, ing, last, nops, chats>>
    /\ UNCHANGED <<uploaded_files, uploaded_files_file, messages_file>>

\* The description request has ended (its failure is not raised), ingest_file
\* returns, and without suspension the handler registers the file and
\* returns the response.
upload_describe ==
    /\ nops' = nops + 1
    /\ \E u \in Uploads, outcome \in LLMOutcomes :
         /\ uploads[u].pc = "describe"
         /\ LET description == generate_file_description(uploads[u].file, outcome)
                ingested == description # "raise"
            IN  /\ agent_uploaded_files' =
                       Registered(agent_uploaded_files, u, uploads[u], ingested, nops')
                /\ uploads' = [uploads EXCEPT ![u] =
                                  Respond(uploads[u], IF ingested THEN 200 ELSE 500)]
    /\ UNCHANGED <<last, chats>>
    /\ UNCHANGED <<uploaded_files, uploaded_files_file, messages_file>>
    /\ UNCHANGED ingestVars

\* GET /files/: files_data = get_uploaded_files(), one FileMetadata each.
get_files ==
    /\ last' = [op |-> "get_files", err |-> None,
                result |-> get_uploaded_files(agent_uploaded_files)]
    /\ UNCHANGED <<nops, taskVars>>
    /\ UNCHANGED stateVars
    /\ UNCHANGED ingestVars

Init ==
    /\ demo_collection \in BOOLEAN
    /\ vectorstore_a = <<>>
    /\ vectorstore_b = <<>>
    /\ ing = Idle
    /\ last = NoCall
    /\ nops = 0
    /\ uploaded_files = EmptyDict
    /\ agent_uploaded_files = EmptyDict
    /\ uploaded_files_file = Missing
    /\ messages_file = JsonFile(default_data)
    /\ chats = [t \in ChatTasks |-> ChatIdle]
    /\ uploads = [u \in Uploads |-> UploadIdle]

Next ==
    \/ Bootstrap
    \/ ingest_file
    \/ load_pages
    \/ upsert_batch_a
    \/ describe_a
    \/ upsert_b

Spec == Init /\ [][Next]_vars

\* Retrieval over stores filled by ingestions that succeed: of the ingestion
\* steps only those that carry a supported file of QueryFiles forward.
QueryFiles == {1, 2}

NextQuery ==
    \/ (ingest_file /\ ing'.pc = "load" /\ ing'.file \in QueryFiles)
    \/ (load_pages /\ ing'.pc # "idle")
    \/ (upsert_batch_a /\ ing'.pc # "idle")
    \/ describe_a
    \/ upsert_b
    \/ search_knowledge_base
    \/ query_documents

SpecQuery == Init /\ [][NextQuery]_vars

\* Chat turns on one conversation, with reads of its history
\* (get_chat_history returns storage.get_messages()).
NextChat ==
    \/ process_chat_message
    \/ agent_run
    \/ get_messages

SpecChat == Init /\ [][NextChat]_vars

\* Uploads handled concurrently, with reads of the registry.
NextUpload ==
    \/ upload_document
    \/ upload_write
    \/ upload_load
    \/ upload_describe
    \/ get_files

SpecUpload == Init /\ [][NextUpload]_vars

NextState ==
    \/ load_uploaded_files
    \/ JSONStorage_init
    \/ add_messages
    \/ get_messages
    \/ clear_chat_messages
    \/ damage_file
    \/ agent_register_uploaded_file
    \/ register_uploaded_file

SpecState == Init /\ [][NextState]_vars

\* Ingestions of files of one chunk and of two batches, each possibly
\* followed at once by a query for a phrase of the file it stored.
RoundTripFiles == {1, batch_size + 1}

NextRoundTrip ==
    \/ (ingest_file /\ (ing'.pc = "load" => ing'.file \in RoundTripFiles))
    \/ load_pages
    \/ upsert_batch_a
    \/ describe_a
    \/ upsert_b
    \/ phrase_search_knowledge_base
    \/ phrase_query_documents

SpecRoundTrip == Init /\ [][NextRoundTrip]_vars

\* -------------------------------------------------------------- properties
IsQuery(r) == r.op = "search_knowledge_base" \/ r.op = "query_documents"

\* What a fan-out call returns for adapter results ra and rb: Documents from
\* search_knowledge_base, entries from query_documents.
Shown(r, docs) == IF r.op = "query_documents" THEN Entries(docs) ELSE docs

\* C1: when both adapters succeed and k >= 1, the fan-out query returns
\* exactly what adapter A returned (at most k items) followed by what
\* adapter B returned (at most k items), each in the adapter's order, so at
\* most 2k items.
C1_FanOutConcatenation ==
    (IsQuery(last) /\ last.k >= 1 /\ last.failed = {}) =>
        /\ last.err = None
        /\ Len(last.returned_a) <= last.k
        /\ Len(last.returned_b) <= last.k
        /\ last.result = Shown(last, last.returned_a) \o Shown(last, last.returned_b)
        /\ Len(last.result) <= 2 * last.k

\* Both stores answer with a chunk, Store A holds more chunks than k.
C1_Witness ==
    /\ IsQuery(last) /\ last.k >= 1 /\ last.failed = {}
    /\ Len(last.returned_a) = last.k
    /\ Len(vectorstore_a) > last.k
    /\ Len(last.returned_b) >= 1
    /\ last.result[1] # last.result[Len(last.result)]

\* C2: ingest_file with a pipeline other than "A" and "B" fails with
\* InvalidArgument, calls no loader and no add_documents, and leaves both
\* vector stores as they were.
C2_InvalidPipelineNoEffect ==
    [][(last'.op = "ingest_file" /\ last' # last /\ last'.pipeline \notin {"A", "B"})
          => /\ last'.err = "InvalidArgument"
             /\ last'.loads = 0
             /\ last'.upserts = 0
             /\ vectorstore_a' = vectorstore_a
             /\ vectorstore_b' = vectorstore_b]_vars

\* An invalid pipeline was refused while Store A held chunks.
C2_Witness ==
    /\ last.op = "ingest_file" /\ last.pipeline = "C"
    /\ last.err = "InvalidArgument"
    /\ Len(vectorstore_a) > 0

\* C3: when exactly one adapter's similarity search fails, the fan-out query
\* raises nothing and returns only the other adapter's results.
C3_DegradesToSucceedingAdapter ==
    (IsQuery(last) /\ last.k >= 1 /\ Cardinality(last.failed) = 1) =>
        /\ last.err = None
        /\ last.result = Shown(last, last.returned_a) \o Shown(last, last.returned_b)

\* C4: when the upsert of batch i of a Pipeline A ingestion fails, the
\* batches before i stay in Store A, no batch after i is submitted, and the
\* caller gets a PartialIngestionFailure naming i and the batch count.
C4_PartialIngestionFailure ==
    (last.op = "ingest_file" /\ last.pipeline = "A" /\ last.upserts >= 1
        /\ last.err # None) =>
        LET i == last.batch
            texts == split_documents(last.file)
            total == (Len(texts) + batch_size - 1) \div batch_size
        IN  /\ vectorstore_a = SubSeq(vectorstore_a, 1, last.base)
                                   \o SubSeq(texts, 1, i * batch_size)
            /\ last.upserts = i + 1
            /\ last.err = "PartialIngestionFailure"
            /\ last.detail = <<i, total>>

\* C5: a Pipeline A ingestion whose description request fails still
\* succeeds, returns None as description, and every chunk of the file is in
\* Store A.
C5_DescriptionFailureNonFatal ==
    (last.op = "ingest_file" /\ last.llm \in {"raises", "no_choices"}) =>
        /\ last.err = None
        /\ last.result = None
        /\ vectorstore_a = SubSeq(vectorstore_a, 1, last.base)
                               \o split_documents(last.file)

\* The description request raised after two batches had been stored.
C5_Witness ==
    /\ last.op = "ingest_file" /\ last.llm = "raises"
    /\ last.upserts = 2
    /\ Len(vectorstore_a) > batch_size

\* C6: running the collection bootstrap when the collection exists raises
\* nothing to the caller and leaves the collection and its chunks as they
\* were.
C6_BootstrapIdempotent ==
    [][(last'.op = "bootstrap" /\ last' # last /\ demo_collection)
          => /\ last'.err = None
             /\ demo_collection'
             /\ vectorstore_a' = vectorstore_a]_vars

\* The bootstrap ran again over a collection that holds chunks.
C6_Witness ==
    /\ last.op = "bootstrap" /\ last.existed /\ last.raised
    /\ demo_collection
    /\ Len(vectorstore_a) > 0

C9_NonPositiveKRejected ==
    (IsQuery(last) /\ last.k <= 0) =>
        /\ last.err = "InvalidArgument"
        /\ last.searches = 0

\* C7: after register(file_id = F, filename, content_type, size, file_path,
\* description), get(F) returns a record with exactly these field values
\* and list() contains the key F.
C7_RegisterThenGet ==
    (last.op = "register_uploaded_file" /\ last.content = None) =>
        LET d == IF last.module = "agent" THEN agent_uploaded_files
                 ELSE uploaded_files
            rec == get_file_metadata(d, last.file_id)
        IN  /\ last.file_id \in DOMAIN get_uploaded_files(d)
            /\ rec.filename = last.args.filename
            /\ rec.content_type = last.args.content_type
            /\ rec.size = last.args.size
            /\ rec.file_path = last.args.file_path
            /\ rec.description = last.args.description

\* A second file id was registered, with a description, in the persisted
\* registry.
C7_Witness ==
    /\ last.op = "register_uploaded_file" /\ last.content = None
    /\ last.module = "utils"
    /\ last.args.description = "manual"
    /\ Cardinality(DOMAIN uploaded_files) = 2

Damaged == {"missing", "corrupt"}

\* C10: loading a missing or corrupt JSON document (the chat
\* history file, the uploaded-files file) raises nothing, yields empty
\* state, and resets the document on disk to the empty state, so that the
\* next load yields empty state without entering the error path.
C10_LoadResetsDocument ==
    /\ (last.op = "get_messages" /\ last.before \in Damaged) =>
           /\ last.err = None
           /\ last.result = <<>>
           /\ messages_file = JsonFile(default_data)
           /\ ~_load_messages(messages_file).errpath
    /\ (last.op = "_load_uploaded_files" /\ last.before \in Damaged) =>
           /\ last.err = None
           /\ last.result = EmptyDict
           /\ uploaded_files_file = JsonFile(EmptyDict)
           /\ ~_load_uploaded_files(uploaded_files_file).errpath

\* C10, amended: loading a missing or corrupt chat history file raises
\* nothing, yields empty state and rewrites the file with the empty
\* document, so the next load does not enter the error path; loading a
\* missing or corrupt uploaded-files file raises nothing and yields an
\* empty registry, but leaves the file as it is, so the next load enters
\* the error path again (and again yields the empty registry).
C10_LoadOfDamagedDocument ==
    /\ (last.op = "get_messages" /\ last.before \in Damaged) =>
           /\ last.err = None
           /\ last.errpath
           /\ last.result = <<>>
           /\ messages_file = JsonFile(default_data)
           /\ ~_load_messages(messages_file).errpath
           /\ _load_messages(messages_file).data = default_data
    /\ (last.op = "_load_uploaded_files" /\ last.before \in Damaged) =>
           /\ last.err = None
           /\ last.errpath
           /\ last.result = EmptyDict
           /\ uploaded_files = EmptyDict
           /\ uploaded_files_file.state = last.before
           /\ _load_uploaded_files(uploaded_files_file).errpath
           /\ _load_uploaded_files(uploaded_files_file).data = EmptyDict

\* The registry module was loaded over a corrupt uploaded-files file, which
\* is still corrupt; the chat history file holds the empty document.
C10_Witness ==
    /\ last.op = "_load_uploaded_files" /\ last.before = "corrupt"
    /\ uploaded_files_file = Corrupt
    /\ messages_file = JsonFile(default_data)

\* The Documents a step appended to a store.
Appended(before, after) == SubSeq(after, Len(before) + 1, Len(after))
AppendOnly(before, after) ==
    Len(before) <= Len(after) /\ SubSeq(after, 1, Len(before)) = before

\* A finished ingestion: Pipeline A made ceil(n/16) add_documents calls and
\* Store A ends with the chunk list; Pipeline B made one call and Store B
\* ends with the chunk list.
C12_Finished ==
    (last.op = "ingest_file" /\ last.err = None) =>
        LET texts == split_documents(last.file)
        IN  IF last.pipeline = "A"
            THEN /\ last.upserts = BatchCount(Len(texts))
                 /\ (Len(texts) = 0 => last.upserts = 0)
                 /\ vectorstore_a = SubSeq(vectorstore_a, 1, last.base) \o texts
            ELSE /\ last.upserts = 1
                 /\ vectorstore_b = SubSeq(vectorstore_b, 1, last.base) \o texts

\* One add_documents call of Pipeline A: every earlier call of the ingestion
\* has returned with a full batch, and the call appends the next (at most
\* 16) chunks of the chunk list, in their order.
C12_BatchStep ==
    (ing.pc = "upsert" /\ ing.pipeline = "A") =>
        LET texts == split_documents(ing.file)
            added == Appended(vectorstore_a, vectorstore_a')
        IN  /\ AppendOnly(vectorstore_a, vectorstore_a')
            /\ ing.i = ing.upserts * batch_size
            /\ Len(vectorstore_a) = ing.base + ing.i
            /\ Len(added) <= batch_size
            /\ (ing'.pc # "idle" =>
                   /\ ing'.upserts = ing.upserts + 1
                   /\ Len(added) >= 1
                   /\ added = SubSeq(texts, ing.i + 1, ing.i + Len(added))
                   /\ (Len(added) < batch_size => ing.i + Len(added) = Len(texts)))

\* C12: a successful Pipeline A ingestion of n chunks makes ceil(n/16)
\* add_documents calls one after another in chunk order, each of at most 16
\* chunks, whose concatenation is the chunk list (no call for n = 0);
\* Pipeline B submits all its chunks in one call.
C12_SequentialBatches == [](C12_Finished) /\ [][C12_BatchStep]_vars

\* A 17-chunk file went into Store A in two batches, behind earlier chunks.
C12_Witness ==
    /\ last.op = "ingest_file" /\ last.pipeline = "A" /\ last.err = None
    /\ last.file = batch_size + 1
    /\ last.upserts = 2
    /\ last.base > 0

\* C16: a Pipeline A ingestion appends chunks only to Store A and leaves
\* Store B as it is; a Pipeline B ingestion appends chunks only to Store B,
\* leaves Store A as it is and returns the empty description; so each
\* add_documents call stores its chunks in exactly one store.
C16_PipelineIsolation ==
    /\ []((last.op = "ingest_file" /\ last.pipeline = "B" /\ last.err = None)
            => last.result = "")
    /\ [][/\ (ing.pipeline = "A" =>
                 /\ vectorstore_b' = vectorstore_b
                 /\ AppendOnly(vectorstore_a, vectorstore_a'))
          /\ (ing.pipeline = "B" =>
                 /\ vectorstore_a' = vectorstore_a
                 /\ AppendOnly(vectorstore_b, vectorstore_b'))
          /\ (ing.pc = "upsert" /\ ing'.pc # "idle" =>
                 vectorstore_a' # vectorstore_a /\ vectorstore_b' = vectorstore_b)
          /\ ((last'.op = "ingest_file" /\ last' # last /\ last'.err = None
                 /\ last'.file > 0)
                 => IF last'.pipeline = "A"
                    THEN Len(vectorstore_a') = last'.base + last'.file
                    ELSE Len(vectorstore_b') = last'.base + last'.file)]_vars

\* Pipeline B stored a file while Store A held the chunks of another.
C16_Witness ==
    /\ last.op = "ingest_file" /\ last.pipeline = "B" /\ last.err = None
    /\ last.result = ""
    /\ Len(vectorstore_b) > 1
    /\ Len(vectorstore_a) > 0

\* A step from the return of a successful ingestion to the return of a query
\* (k >= 1) for a phrase of the ingested file, in which the query returned
\* and the adapter of the ingestion's pipeline answered.
RoundTrip ==
    /\ JustIngested
    /\ last.file > 0
    /\ IsQuery(last')
    /\ last'.query \in PhrasesOf(last.file)
    /\ last'.k >= 1
    /\ last'.err = None
    /\ last.pipeline \notin last'.failed

\* The query's result holds a chunk whose metadata source is the ingested file.
RoundTripHit ==
    \E j \in DOMAIN last'.result :
        /\ "metadata" \in DOMAIN last'.result[j]
        /\ last'.result[j].metadata.source = last.file

\* The chunks of other files, in the store of the ingestion's pipeline, that
\* are as similar to the phrase as the chunk it was taken from.
Competitors ==
    LET store == IF last.pipeline = "A" THEN vectorstore_a ELSE vectorstore_b
    IN  {j \in DOMAIN store :
            /\ store[j].metadata.source # last.file
            /\ Score(last'.query, store[j]) >= MaxScore}

\* C11: after ingest_file of a file succeeds with pipeline P, the query that
\* follows at once with a phrase taken word for word from the file returns
\* at least one chunk whose metadata source is the ingested file.
C11_RoundTrip == [][RoundTrip => RoundTripHit]_vars

\* C11, amended: the same, when fewer than k chunks of other files in the
\* store of pipeline P are as similar to the phrase as the chunk it was
\* taken from.
C11_RoundTripWithinK ==
    [][(RoundTrip /\ Cardinality(Competitors) < last'.k) => RoundTripHit]_vars

\* A query with k = 1 answered from Store A, which holds two files, with the
\* last chunk of the 17-chunk file that was ingested second.
C11_Witness ==
    /\ IsQuery(last) /\ last.err = None /\ last.k = 1
    /\ last.query = PhraseOf(batch_size + 1, batch_size + 1)
    /\ Len(vectorstore_a) > batch_size + 1
    /\ vectorstore_a[Len(vectorstore_a)].page_content
           = <<batch_size + 1, batch_size + 1>>
    /\ Len(last.returned_a) = 1
    /\ last.returned_a[1].metadata.source = batch_size + 1

\* C13: after process_chat_message calls on one conversation, with no clear
\* in between, the history get_chat_history returns is the history that
\* existed before the call that returned last, followed by that call's new
\* messages; no earlier turn's messages are lost.
C13_HistoryExtended ==
    (last.op = "process_chat_message" /\ last.err = None) =>
        StoredMessages(messages_file) = last.history \o last.new

\* The upload request that was given the file id.
UploadOf(file_id) == CHOOSE u \in Uploads : UploadFileId(u) = file_id

\* C14: in the upload handler the registry is updated only after ingestion
\* has completed successfully.  Every record of the registry belongs to an
\* upload whose ingestion finished (all its chunks are in Store A) and that
\* was answered with success; an upload answered with an error has no
\* record, and the step that fails it leaves the registry as it was; a
\* record appears only in the step in which the ingestion returns.
C14_RegisterAfterIngestion ==
    /\ [](\A u \in Uploads :
            /\ UploadFileId(u) \in DOMAIN agent_uploaded_files
                 => /\ uploads[u].pc = "done" /\ uploads[u].status = 200
                    /\ \E b \in 0..Len(vectorstore_a) :
                         SubSeq(vectorstore_a, b + 1, b + uploads[u].file)
                             = split_documents(uploads[u].file)
            /\ uploads[u].status = 500
                 => /\ uploads[u].pc = "done"
                    /\ UploadFileId(u) \notin DOMAIN agent_uploaded_files)
    /\ [][\A u \in Uploads :
            /\ (uploads'[u].status = 500 /\ uploads[u].status # 500)
                 => agent_uploaded_files' = agent_uploaded_files
            /\ (UploadFileId(u) \in DOMAIN agent_uploaded_files'
                    /\ UploadFileId(u) \notin DOMAIN agent_uploaded_files)
                 => uploads[u].pc = "describe" /\ uploads'[u].status = 200]_vars

\* One upload failed after a batch of its file was stored and has no record;
\* the other was ingested and registered.
C14_Witness ==
    \E u, v \in Uploads :
        /\ uploads[u].status = 500 /\ uploads[u].file > 0
        /\ uploads[v].status = 200 /\ uploads[v].file > 0
        /\ Len(vectorstore_a) = batch_size + uploads[v].file
        /\ DOMAIN agent_uploaded_files = {UploadFileId(v)}

\* A complete record of upload u: the six fields, with the upload's values.
CompleteRecord(rec, u) ==
    /\ DOMAIN rec = {"filename", "content_type", "size", "description",
                     "upload_timestamp", "file_path"}
    /\ rec.filename = UploadName(u)
    /\ rec.content_type = uploads[u].type
    /\ rec.size = uploads[u].file
    /\ rec.file_path = <<"uploads", UploadName(u)>>
    /\ rec.description = None
    /\ rec.upload_timestamp \in 1..nops

\* C15: under any interleaving of concurrent uploads of distinct files and
\* reads of the registry, every upload answered with success has its
\* complete record in the registry (so both records once both have
\* finished), a read returns complete records only, and no step removes or
\* changes a record that is there.
C15_AtomicInsert ==
    /\ [](\A u \in Uploads :
            uploads[u].status = 200
                => /\ UploadFileId(u) \in DOMAIN agent_uploaded_files
                   /\ CompleteRecord(agent_uploaded_files[UploadFileId(u)], u))
    /\ [](last.op = "get_files"
            => \A id \in DOMAIN last.result :
                   CompleteRecord(last.result[id], UploadOf(id)))
    /\ [][\A id \in DOMAIN agent_uploaded_files :
            /\ id \in DOMAIN agent_uploaded_files'
            /\ agent_uploaded_files'[id] = agent_uploaded_files[id]]_vars

\* Both uploads ran at once and finished; a read in between saw one record,
\* the registry now holds both.
C15_Witness ==
    /\ \A u \in Uploads : uploads[u].status = 200
    /\ DOMAIN agent_uploaded_files = {"F1", "F2"}
    /\ last.op = "get_files"
    /\ Cardinality(DOMAIN last.result) = 1

====
